---- MODULE Spec2Model ----
(***************************************************************************)
(* A model of the Docker metrics collector of collector.go: one call of    *)
(* DockerCollector.Collect fans out one goroutine per listed container,    *)
(* each goroutine (processContainer) sends its points to the channel the   *)
(* metric registry handed to Collect, and Collect returns after wg.Wait(). *)
(*                                                                         *)
(* Strings that the code takes apart (container names) are sequences of    *)
(* one-character strings.  A float64 is a record: a finite value is the    *)
(* exact fraction num/den, and the two results a float64 division by zero  *)
(* has in Go are the tags "nan" and "inf".  A uint64 is a natural number   *)
(* below Modulus, and every uint64 subtraction and addition is taken       *)
(* modulo Modulus.  The registry receives every point sent to the channel, *)
(* so a send never blocks for good; the points received in a cycle are     *)
(* kept as a bag, the log records written in a cycle as a set.             *)
(***************************************************************************)
EXTENDS Integers, Sequences, FiniteSets, Bags, TLC

VARIABLES
    env,            \* which runtime the collector talks to: "fleet" or "single"
    collectPc,      \* position of Collect: "idle", "spawn", "wait", "returned"
    exited,         \* TRUE once log.Fatal has terminated the process
    containers,     \* the containers ContainerList returned in this cycle
    listErr,        \* TRUE when ContainerList returned an error in this cycle
    idx,            \* the for loop of Collect: next container to start
    wg,             \* the sync.WaitGroup counter
    tpc,            \* position of each processContainer goroutine
    sent,           \* number of derived points each goroutine has sent
    containerStats, \* each goroutine's decoded types.StatsJSON
    decodeErr,      \* each goroutine's err of Decode
    fetchCalls,     \* containers ContainerStats was called for
    fetchErr,       \* containers whose ContainerStats call returned an error
    ch,             \* the points sent to the channel in this cycle (a bag)
    log             \* the records written to the log in this cycle (a set)

vars == <<env, collectPc, exited, containers, listErr, idx, wg, tpc, sent,
          containerStats, decodeErr, fetchCalls, fetchErr, ch, log>>

---------------------------------------------------------------------------
(* Bounds of the model *)

\* most containers one ContainerList call returns in the "fleet" runtime
MaxContainers == 2

\* width in bits of the model's uint64
UintBits == 16

\* largest raw counter value the "single" runtime reports in a field it varies
MaxVal == 2

Modulus == 2 ^ UintBits

\* 1e9: nanoseconds in a second
NanosPerSecond == 1000000000

---------------------------------------------------------------------------
(* float64 *)

NaN == [tag |-> "nan", num |-> 0, den |-> 1]

PosInf == [tag |-> "inf", num |-> 0, den |-> 1]

Fin(n, d) == [tag |-> "fin", num |-> n, den |-> d]

\* float64(x) of a uint64
Float64(x) == Fin(x, 1)

\* float64(a) / float64(b) * 100.0, with no test of b
Percent(a, b) ==
    IF b = 0
    THEN (IF a = 0 THEN NaN ELSE PosInf)
    ELSE Fin(a * 100, b)

\* a - b and a + b of uint64
USub(a, b) == (a - b) % Modulus

UAdd(a, b) == (a + b) % Modulus

---------------------------------------------------------------------------
(* strings *)

RECURSIVE Join(_, _)
\* strings.Join(names, sep)
Join(names, sep) ==
    IF Len(names) = 0 THEN <<>>
    ELSE IF Len(names) = 1 THEN names[1]
    ELSE names[1] \o sep \o Join(Tail(names), sep)

\* strings.TrimPrefix(s, prefix)
TrimPrefix(s, prefix) ==
    IF Len(s) >= Len(prefix) /\ SubSeq(s, 1, Len(prefix)) = prefix
    THEN SubSeq(s, Len(prefix) + 1, Len(s))
    ELSE s

\* the names are joined and the leading separator is kept
cNameUntrimmed(c) == Join(c.Names, <<";">>)

\* cName of processContainer
cNameOf(c) == TrimPrefix(Join(c.Names, <<";">>), <<"/">>)

\* the simple case folding of the operation names the runtime reports
Fold(s) ==
    CASE s \in {"Read", "READ", "read"} -> "read"
      [] s \in {"Write", "WRITE", "write"} -> "write"
      [] OTHER -> s

\* strings.EqualFold(a, b)
EqualFold(a, b) == Fold(a) = Fold(b)

---------------------------------------------------------------------------
(* the runtime's data *)

\* m[k] of a Go map[string]uint64: the zero value when k is not a key
MapGet(m, k) == IF k \in DOMAIN m THEN m[k] ELSE 0

\* a map with no key
NoKeys == [k \in {} |-> 0]

\* Networks[name] of a Go map of structs: the zero struct when name is not a key
NetGet(m, k) == IF k \in DOMAIN m THEN m[k] ELSE [RxBytes |-> 0, TxBytes |-> 0]

\* the zero value of types.StatsJSON (var containerStats types.StatsJSON)
ZeroStats ==
    [CPUStats    |-> [TotalUsage |-> 0, SystemUsage |-> 0],
     PreCPUStats |-> [TotalUsage |-> 0, SystemUsage |-> 0],
     MemoryStats |-> [Usage |-> 0, Limit |-> 0, Stats |-> NoKeys],
     Networks    |-> [k \in {} |-> [RxBytes |-> 0, TxBytes |-> 0]],
     BlkioStats  |-> <<>>,
     PidsStats   |-> 0]

\* a snapshot of a busy cgroup v1 container
SampleStats ==
    [CPUStats    |-> [TotalUsage |-> 1100, SystemUsage |-> 20100],
     PreCPUStats |-> [TotalUsage |-> 1000, SystemUsage |-> 20000],
     MemoryStats |-> [Usage |-> 500, Limit |-> 1000,
                      Stats |-> [k \in {"cache", "rss"} |-> 100]],
     Networks    |-> [k \in {"eth0", "lo"} |->
                         IF k = "eth0" THEN [RxBytes |-> 10, TxBytes |-> 20]
                                       ELSE [RxBytes |-> 7, TxBytes |-> 7]],
     BlkioStats  |-> <<[Op |-> "Read", Value |-> 100],
                       [Op |-> "write", Value |-> 50],
                       [Op |-> "Sync", Value |-> 9]>>,
     PidsStats   |-> 3]

Vals == 0 .. MaxVal

\* snapshots that differ from SampleStats in the four CPU counters
CPUInputs ==
    { [SampleStats EXCEPT !.CPUStats = [TotalUsage |-> t, SystemUsage |-> s],
                          !.PreCPUStats = [TotalUsage |-> pt, SystemUsage |-> ps]] :
        t \in Vals, s \in Vals, pt \in Vals, ps \in Vals }

\* the memory-accounting maps: "cache" and "file" each absent or present
\* (a cgroup stat has a name: no map has the key "")
MemoryMaps ==
    { [k \in {"rss"} |-> 1] }
    \cup { [k \in {"rss", "cache"} |-> IF k = "cache" THEN c ELSE 1] : c \in Vals }
    \cup { [k \in {"rss", "file"} |-> IF k = "file" THEN f ELSE 1] : f \in Vals }
    \cup { [k \in {"cache", "file"} |-> IF k = "cache" THEN c ELSE f] :
             c \in Vals, f \in Vals }

\* snapshots that differ from SampleStats in the memory statistics
MemoryInputs ==
    { [SampleStats EXCEPT !.MemoryStats = [Usage |-> u, Limit |-> l, Stats |-> m]] :
        u \in Vals, l \in Vals, m \in MemoryMaps }

\* the snapshots a ContainerStats body decodes to, by runtime
SnapshotsOf(e) ==
    IF e = "fleet" THEN {ZeroStats, SampleStats}
    ELSE {ZeroStats} \cup CPUInputs \cup MemoryInputs

\* what containerStats holds after a Decode that returned an error: the zero
\* value (a body cut short or no JSON) or, in the "single" runtime, a value
\* decoded in part (a field of the wrong type)
PartialsOf(e) == IF e = "fleet" THEN {ZeroStats} ELSE SnapshotsOf(e)

\* the most containers ContainerList returns, by runtime
MaxListOf(e) == IF e = "fleet" THEN MaxContainers ELSE 1

Letters == <<"a", "b", "c", "d", "e", "f", "g", "h">>

\* the names the runtime reports for its i-th container: a plain name, a name
\* with a link alias, a name with no leading separator
NamesOf(i) ==
    LET l == Letters[((i - 1) % Len(Letters)) + 1] IN
    CASE i % 3 = 1 -> << <<"/", l>> >>
      [] i % 3 = 2 -> << <<"/", l>>, <<"/", "x", "/", l>> >>
      [] OTHER     -> << <<l>> >>

ContainerStates == {"running", "exited"}

\* the results of ContainerList(All: true): types.Container values
ContainerLists(e) ==
    UNION { [1 .. n -> ContainerStates] : n \in 0 .. MaxListOf(e) }

ContainerOf(i, st) == [ID |-> i, Names |-> NamesOf(i), State |-> st]

---------------------------------------------------------------------------
(* the metric functions: each is the sequence of its channel sends, a send *)
(* being the point sent and the log records written since the last send    *)

Point(name, kind, value, cName) ==
    [name |-> name, kind |-> kind, value |-> value, label |-> cName]

Send(p) == [point |-> p, logs |-> {}]

SendLogged(p, l) == [point |-> p, logs |-> l]

\* a container of any state counts as running
IsRunningAlways(c) == TRUE

\* processContainer: isRunning == 1
IsRunning(c) == c.State = "running"

\* the running point of processContainer
RunningPoint(c) ==
    Point("dex_container_running", "gauge",
          Float64(IF IsRunning(c) THEN 1 ELSE 0), cNameOf(c))

CPUMetrics(stats, cName) ==
    LET totalUsage == stats.CPUStats.TotalUsage
        cpuDelta == USub(totalUsage, stats.PreCPUStats.TotalUsage)
        sysemDelta == USub(stats.CPUStats.SystemUsage, stats.PreCPUStats.SystemUsage)
        cpuUtilization == Percent(cpuDelta, sysemDelta)
    IN  << Send(Point("dex_cpu_utilization_percent", "gauge", cpuUtilization, cName)),
           Send(Point("dex_cpu_utilization_seconds_total", "counter",
                      Fin(totalUsage, NanosPerSecond), cName)) >>

networkMetrics(stats, cName) ==
    << Send(Point("dex_network_rx_bytes", "counter",
                  Float64(NetGet(stats.Networks, "eth0").RxBytes), cName)),
       Send(Point("dex_network_tx_bytes", "counter",
                  Float64(NetGet(stats.Networks, "eth0").TxBytes), cName)) >>

\* memoryMetrics as it was before cgroup v2: only the "cache" stat is subtracted
memoryMetricsCacheOnly(stats, cName) ==
    LET m == stats.MemoryStats.Stats
        warn == IF "cache" \notin DOMAIN m /\ "file" \notin DOMAIN m
                THEN {[level |-> "warning", msg |-> "could not find cache nor file stat",
                       container |-> cName]}
                ELSE {}
        memoryUsage == USub(stats.MemoryStats.Usage, MapGet(m, "cache"))
        memoryTotal == stats.MemoryStats.Limit
    IN  << SendLogged(Point("dex_memory_usage_bytes", "counter",
                            Float64(memoryUsage), cName), warn),
           Send(Point("dex_memory_total_bytes", "counter", Float64(memoryTotal), cName)),
           Send(Point("dex_memory_utilization_percent", "gauge",
                      Percent(memoryUsage, memoryTotal), cName)) >>

memoryMetrics(stats, cName) ==
    LET m == stats.MemoryStats.Stats
        isCgroupV1 == "cache" \in DOMAIN m
        isCgroupV2 == "file" \in DOMAIN m
        kernelDiskCacheKeyName ==
            IF isCgroupV2 THEN "file" ELSE IF isCgroupV1 THEN "cache" ELSE ""
        warn == IF ~isCgroupV1 /\ ~isCgroupV2
                THEN {[level |-> "warning", msg |-> "could not find cache nor file stat",
                       container |-> cName]}
                ELSE {}
        memoryUsage == USub(stats.MemoryStats.Usage, MapGet(m, kernelDiskCacheKeyName))
        memoryTotal == stats.MemoryStats.Limit
        memoryUtilization == Percent(memoryUsage, memoryTotal)
    IN  << SendLogged(Point("dex_memory_usage_bytes", "counter",
                            Float64(memoryUsage), cName), warn),
           Send(Point("dex_memory_total_bytes", "counter", Float64(memoryTotal), cName)),
           Send(Point("dex_memory_utilization_percent", "gauge",
                      memoryUtilization, cName)) >>

RECURSIVE BlkioTotal(_, _)
\* the loop of blockIoMetrics for one operation name
BlkioTotal(entries, op) ==
    IF Len(entries) = 0 THEN 0
    ELSE LET b == entries[Len(entries)]
             rest == BlkioTotal(SubSeq(entries, 1, Len(entries) - 1), op)
         IN  IF EqualFold(b.Op, op) THEN UAdd(rest, b.Value) ELSE rest

blockIoMetrics(stats, cName) ==
    LET readTotal == BlkioTotal(stats.BlkioStats, "read")
        writeTotal == BlkioTotal(stats.BlkioStats, "write")
    IN  << Send(Point("dex_block_io_read_bytes", "counter", Float64(readTotal), cName)),
           Send(Point("dex_block_io_write_bytes", "counter", Float64(writeTotal), cName)) >>

pidsMetrics(stats, cName) ==
    << Send(Point("dex_pids_current", "counter", Float64(stats.PidsStats), cName)) >>

\* the sends of processContainer after the decode, in the order of its calls
DerivedSends(stats, cName) ==
    blockIoMetrics(stats, cName) \o memoryMetrics(stats, cName)
        \o networkMetrics(stats, cName) \o CPUMetrics(stats, cName)
        \o pidsMetrics(stats, cName)

---------------------------------------------------------------------------
(* the collector *)

Tasks == 1 .. MaxContainers

LogRecord(level, msg) == [level |-> level, msg |-> msg, container |-> <<>>]

\* the state of one Collect call before its ContainerList call
CycleStart ==
    /\ idx' = 1
    /\ wg' = 0
    /\ tpc' = [i \in Tasks |-> "none"]
    /\ sent' = [i \in Tasks |-> 0]
    /\ containerStats' = [i \in Tasks |-> ZeroStats]
    /\ decodeErr' = [i \in Tasks |-> FALSE]
    /\ fetchCalls' = {}
    /\ fetchErr' = {}
    /\ ch' = EmptyBag

InitCollector ==
    /\ collectPc = "idle"
    /\ exited = FALSE
    /\ containers = <<>>
    /\ listErr = FALSE
    /\ idx = 1
    /\ wg = 0
    /\ tpc = [i \in Tasks |-> "none"]
    /\ sent = [i \in Tasks |-> 0]
    /\ containerStats = [i \in Tasks |-> ZeroStats]
    /\ decodeErr = [i \in Tasks |-> FALSE]
    /\ fetchCalls = {}
    /\ fetchErr = {}
    /\ ch = EmptyBag
    /\ log = {}

Init == env = "fleet" /\ InitCollector

InitNorm == env = "single" /\ InitCollector

\* ContainerList returned an error and Collect goes on with a partial list
ListFailedGoesOn ==
    /\ listErr' = TRUE
    /\ containers' = <<ContainerOf(1, "exited")>>
    /\ log' = {LogRecord("error", "can't list containers")}
    /\ collectPc' = "spawn"

\* Collect: ContainerList returned an error
ListFailed ==
    /\ listErr' = TRUE
    /\ containers' = <<>>
    /\ log' = {LogRecord("error", "can't list containers")}
    /\ collectPc' = "returned"

\* Collect: ContainerList returned the containers l
ListOk(l) ==
    /\ listErr' = FALSE
    /\ containers' = [i \in 1 .. Len(l) |-> ContainerOf(i, l[i])]
    /\ log' = {}
    /\ collectPc' = "spawn"

\* Collect is called by the registry and calls ContainerList
CollectList ==
    /\ ~exited
    /\ collectPc \in {"idle", "returned"}
    /\ CycleStart
    /\ \/ ListFailed
       \/ \E l \in ContainerLists(env) : ListOk(l)
    /\ UNCHANGED <<env, exited>>

\* Collect: one turn of the for loop, wg.Add(1) and the go statement
Spawn ==
    /\ ~exited
    /\ collectPc = "spawn"
    /\ idx <= Len(containers)
    /\ wg' = wg + 1
    /\ tpc' = [tpc EXCEPT ![idx] = "start"]
    /\ idx' = idx + 1
    /\ UNCHANGED <<env, collectPc, exited, containers, listErr, sent, containerStats,
                   decodeErr, fetchCalls, fetchErr, ch, log>>

\* a Collect that does not wait for its goroutines
WaitSkipped == TRUE

\* wg.Wait() returns
WaitPasses == wg = 0

\* Collect: the loop is over, wg.Wait() returns and Collect returns
CollectReturn ==
    /\ ~exited
    /\ collectPc = "spawn"
    /\ idx > Len(containers)
    /\ WaitPasses
    /\ collectPc' = "returned"
    /\ UNCHANGED <<env, exited, containers, listErr, idx, wg, tpc, sent, containerStats,
                   decodeErr, fetchCalls, fetchErr, ch, log>>

\* processContainer: the running point is sent
SendRunning(i) ==
    /\ ~exited
    /\ tpc[i] = "start"
    /\ ch' = ch (+) SetToBag({RunningPoint(containers[i])})
    /\ tpc' = [tpc EXCEPT ![i] = IF IsRunning(containers[i]) THEN "fetch" ELSE "ret"]
    /\ UNCHANGED <<env, collectPc, exited, containers, listErr, idx, wg, sent,
                   containerStats, decodeErr, fetchCalls, fetchErr, log>>

\* processContainer: ContainerStats returns; on an error log.Fatal ends the process
FetchStats(i) ==
    /\ ~exited
    /\ tpc[i] = "fetch"
    /\ fetchCalls' = fetchCalls \cup {i}
    /\ \/ /\ fetchErr' = fetchErr \cup {i}
          /\ log' = log \cup {LogRecord("fatal", "ContainerStats")}
          /\ exited' = TRUE
          /\ UNCHANGED tpc
       \/ /\ tpc' = [tpc EXCEPT ![i] = "decode"]
          /\ UNCHANGED <<fetchErr, log, exited>>
    /\ UNCHANGED <<env, collectPc, containers, listErr, idx, wg, sent, containerStats,
                   decodeErr, ch>>

\* processContainer: the body is decoded into containerStats and closed; either
\* error is logged and the function goes on
Decode(i) ==
    /\ ~exited
    /\ tpc[i] = "decode"
    /\ \E derr \in BOOLEAN, cerr \in BOOLEAN :
       \E s \in (IF derr THEN PartialsOf(env) ELSE SnapshotsOf(env)) :
          /\ containerStats' = [containerStats EXCEPT ![i] = s]
          /\ decodeErr' = [decodeErr EXCEPT ![i] = derr]
          /\ log' = log
                \cup (IF derr THEN {LogRecord("error", "can't read api stats")} ELSE {})
                \cup (IF cerr THEN {LogRecord("error", "can't close body")} ELSE {})
    /\ tpc' = [tpc EXCEPT ![i] = "emit"]
    /\ UNCHANGED <<env, collectPc, exited, containers, listErr, idx, wg, sent,
                   fetchCalls, fetchErr, ch>>

\* processContainer: the next send of the five metric functions
SendDerived(i) ==
    LET sends == DerivedSends(containerStats[i], cNameOf(containers[i]))
        step == sends[sent[i] + 1]
    IN  /\ ~exited
        /\ tpc[i] = "emit"
        /\ ch' = ch (+) SetToBag({step.point})
        /\ log' = log \cup step.logs
        /\ sent' = [sent EXCEPT ![i] = sent[i] + 1]
        /\ tpc' = [tpc EXCEPT ![i] = IF sent[i] + 1 = Len(sends) THEN "ret" ELSE "emit"]
        /\ UNCHANGED <<env, collectPc, exited, containers, listErr, idx, wg,
                       containerStats, decodeErr, fetchCalls, fetchErr>>

\* processContainer returns: the deferred wg.Done()
TaskReturn(i) ==
    /\ ~exited
    /\ tpc[i] = "ret"
    /\ wg' = wg - 1
    /\ tpc' = [tpc EXCEPT ![i] = "done"]
    /\ UNCHANGED <<env, collectPc, exited, containers, listErr, idx, sent,
                   containerStats, decodeErr, fetchCalls, fetchErr, ch, log>>

Next ==
    \/ CollectList
    \/ Spawn
    \/ CollectReturn
    \/ \E i \in Tasks : SendRunning(i)
    \/ \E i \in Tasks : FetchStats(i)
    \/ \E i \in Tasks : Decode(i)
    \/ \E i \in Tasks : SendDerived(i)
    \/ \E i \in Tasks : TaskReturn(i)

\* a fleet of containers, each reporting one of two snapshots
Spec == Init /\ [][Next]_vars

\* one container, reporting any snapshot of the bounded input sets
SpecNorm == InitNorm /\ [][Next]_vars

---------------------------------------------------------------------------
(* what the properties below speak of *)

\* the containers listed in this cycle
Listed == 1 .. Len(containers)

RECURSIVE Joined(_)
\* the names with a ';' between each two
Joined(ns) ==
    IF ns = <<>> THEN <<>>
    ELSE IF Len(ns) = 1 THEN ns[1]
    ELSE Joined(SubSeq(ns, 1, Len(ns) - 1)) \o <<";">> \o ns[Len(ns)]

\* the normalized name: the joined names less one leading '/'
NormalizedName(ns) ==
    LET j == Joined(ns) IN IF j # <<>> /\ j[1] = "/" THEN Tail(j) ELSE j

LabelOf(i) == NormalizedName(containers[i].Names)

\* how many times the points of S, each one sent, were sent
CountIn(S) == BagCardinality([p \in S |-> ch[p]])

\* the points sent under the normalized name of container i
PointsOf(i) == LET l == LabelOf(i) IN {p \in BagToSet(ch) : p.label = l}

CountNamedIn(S, n) == CountIn({p \in S : p.name = n})

CountNamed(i, n) == CountNamedIn(PointsOf(i), n)

DerivedOf(i) == {p \in PointsOf(i) : p.name # "dex_container_running"}

DerivedNames ==
    {"dex_cpu_utilization_percent", "dex_cpu_utilization_seconds_total",
     "dex_memory_usage_bytes", "dex_memory_total_bytes",
     "dex_memory_utilization_percent", "dex_network_rx_bytes",
     "dex_network_tx_bytes", "dex_block_io_read_bytes",
     "dex_block_io_write_bytes", "dex_pids_current"}

AllNames == DerivedNames \cup {"dex_container_running"}

\* the goroutine of container i has sent all it sends
Finished(i) == tpc[i] \in {"ret", "done"}

\* the cycle is over: Collect returned, or the process is gone
CycleOver == collectPc = "returned" \/ exited

---------------------------------------------------------------------------
(* the properties *)

\* C1: in a cycle whose listing succeeded, the batch holds exactly one
\* dex_container_running point for each listed container, whether or not a
\* fetch of that container or of a sibling failed.
C1_OneRunningPointEach ==
    (CycleOver /\ ~listErr) =>
        \A i \in Listed : CountNamed(i, "dex_container_running") = 1

\* C2: a failed fetch of one container does not end the process, and the
\* batch of the cycle holds the running point of every container and all ten
\* derived points of every running sibling whose fetch succeeded.
C2_FetchFailureIsolated ==
    \A i \in fetchErr :
        /\ ~exited
        /\ collectPc = "returned" =>
              \A j \in Listed :
                  /\ CountNamed(j, "dex_container_running") = 1
                  /\ (IsRunning(containers[j]) /\ j \notin fetchErr) =>
                        \A n \in DerivedNames : CountNamed(j, n) = 1

\* C3: when the listing fails, Collect has returned to its caller with no
\* point sent, no goroutine started and no fetch made.
C3_ListFailureEmitsNothing ==
    listErr =>
        /\ collectPc = "returned"
        /\ ~exited
        /\ ch = EmptyBag
        /\ wg = 0
        /\ fetchCalls = {}
        /\ \A i \in Tasks : tpc[i] = "none"

C3_Witness == listErr /\ collectPc = "returned" /\ log # {}

\* C4: when Collect has returned, the goroutine of every listed container has
\* finished, and no goroutine can send a point any more.
C4_ReturnAfterAllTasks ==
    collectPc = "returned" =>
        /\ \A i \in Listed : tpc[i] = "done"
        /\ \A i \in Tasks : ~ENABLED SendRunning(i) /\ ~ENABLED SendDerived(i)

C4_Witness ==
    /\ collectPc = "returned"
    /\ Len(containers) >= 2
    /\ \E i \in Listed : IsRunning(containers[i]) /\ sent[i] = 10
    /\ \E i \in Listed : ~IsRunning(containers[i])

\* C5: when the decode of a running container's stats fails, the failure is
\* logged and no derived point of that container is sent.
C5_DecodeFailureOmitsDerived ==
    \A i \in Listed :
        decodeErr[i] =>
            /\ LogRecord("error", "can't read api stats") \in log
            /\ DerivedOf(i) = {}

\* C6: a listed container that is not running is never fetched, never gets a
\* derived point, and gets exactly one point, dex_container_running with
\* value 0, once its goroutine has sent what it sends.
C6_NotRunningOnePoint ==
    \A i \in Listed :
        containers[i].State # "running" =>
            /\ i \notin fetchCalls
            /\ DerivedOf(i) = {}
            /\ CountIn(PointsOf(i)) <= 1
            /\ \A p \in PointsOf(i) : p.value = Float64(0) /\ p.kind = "gauge"
            /\ (Finished(i) \/ collectPc = "returned") => CountIn(PointsOf(i)) = 1

C6_Witness ==
    \E i \in Listed :
        /\ containers[i].State # "running"
        /\ tpc[i] = "done"
        /\ \E j \in Listed : j # i /\ IsRunning(containers[j]) /\ sent[j] > 0

\* C7: a running container whose fetch and decode succeeded has, once its
\* goroutine has sent what it sends, exactly the eleven points, each once,
\* under its own normalized name; and every point of the batch carries the
\* normalized name of a listed container and one of the eleven names, at
\* most once per container.
C7_ElevenPointsOwnLabel ==
    /\ LET labels == {LabelOf(i) : i \in Listed}
       IN  \A p \in BagToSet(ch) : p.name \in AllNames /\ p.label \in labels
    /\ \A i \in Listed :
          LET mine == PointsOf(i)
          IN  /\ \A p \in mine : ch[p] = 1
              /\ \A p, q \in mine : p.name = q.name => p = q
              /\ (IsRunning(containers[i]) /\ Finished(i) /\ ~decodeErr[i]) =>
                    /\ \A n \in AllNames : CountNamedIn(mine, n) = 1
                    /\ CountIn(mine) = 11

C7_Witness ==
    /\ Len(containers) >= 2
    /\ \A i \in Listed :
          /\ IsRunning(containers[i])
          /\ tpc[i] = "done"
          /\ ~decodeErr[i]
          /\ Len(containers[i].Names) = i

\* C8: the memory usage sent is the usage less the value of the one of "cache"
\* and "file" that is in the mapping (a uint64 subtraction); with neither key
\* it is the usage itself, a warning is logged for the container, and the
\* three memory points are sent all the same.
C8_MemoryKey ==
    \A i \in Listed :
        Finished(i) /\ IsRunning(containers[i]) =>
            LET ms == containerStats[i].MemoryStats
                v1 == "cache" \in DOMAIN ms.Stats
                v2 == "file" \in DOMAIN ms.Stats
                sentUsage == {p.value : p \in {q \in PointsOf(i) :
                                                 q.name = "dex_memory_usage_bytes"}}
            IN  /\ (v1 /\ ~v2) =>
                      sentUsage = {Float64((ms.Usage - ms.Stats["cache"]) % Modulus)}
                /\ (v2 /\ ~v1) =>
                      sentUsage = {Float64((ms.Usage - ms.Stats["file"]) % Modulus)}
                /\ (~v1 /\ ~v2) =>
                      /\ sentUsage = {Float64(ms.Usage)}
                      /\ \E r \in log : r.level = "warning" /\ r.container = LabelOf(i)
                      /\ CountNamed(i, "dex_memory_total_bytes") = 1
                      /\ CountNamed(i, "dex_memory_utilization_percent") = 1

C8_Witness ==
    \E i \in Listed :
        /\ tpc[i] = "done"
        /\ DOMAIN containerStats[i].MemoryStats.Stats = {"rss", "file"}
        /\ containerStats[i].MemoryStats.Usage = 2
        /\ containerStats[i].MemoryStats.Stats["file"] = 1
        /\ \E p \in PointsOf(i) :
              p.name = "dex_memory_usage_bytes" /\ p.value = Float64(1)

\* C9: a utilization-percent point is never sent with the result of a division
\* by zero: with a system delta of 0 (CPU) or a limit of 0 (memory) the point
\* is sent with value 0 or not at all.
C9_ZeroDenominatorGuarded ==
    /\ \A p \in BagToSet(ch) :
          p.name \in {"dex_cpu_utilization_percent", "dex_memory_utilization_percent"}
              => p.value.tag = "fin"
    /\ \A i \in Listed :
          LET st == containerStats[i]
              systemDelta ==
                  (st.CPUStats.SystemUsage - st.PreCPUStats.SystemUsage) % Modulus
          IN  /\ systemDelta = 0 =>
                    \A p \in PointsOf(i) :
                        p.name = "dex_cpu_utilization_percent" => p.value = Float64(0)
              /\ st.MemoryStats.Limit = 0 =>
                    \A p \in PointsOf(i) :
                        p.name = "dex_memory_utilization_percent" => p.value = Float64(0)

\* C10: the dex_memory_usage_bytes value sent for a container never exceeds the
\* raw memory usage of its snapshot.
C10_UsageNeverExceedsRaw ==
    \A i \in Listed :
        \A p \in PointsOf(i) :
            p.name = "dex_memory_usage_bytes" =>
                /\ p.value.tag = "fin"
                /\ p.value.num <= containerStats[i].MemoryStats.Usage * p.value.den

====
